---- MODULE Spec2Model ----
(***************************************************************************)
(* Model of the distribution algebra (src/src/distribution.rs) and of the  *)
(* finite Markov process (src/src/markov_process.rs).                      *)
(*                                                                         *)
(* f64 values are modelled as exact rationals over small integers (all     *)
(* weights and integrand values are integers, i.e. exactly representable), *)
(* together with the IEEE results of a division by zero (inf, NaN).        *)
(***************************************************************************)
EXTENDS Integers, Sequences, FiniteSets

VARIABLES
    table,                \* the table() of the finite distribution D
    kind,                 \* which value currently owns D
    func,                 \* the closure stored in DistMap / SampledDist
    log,                  \* calls made by the last operation, in order
    ret,                  \* what the last operation returned
    op,                   \* the last operation
    arg,                  \* the argument of the last operation
    nOps,                 \* operations performed so far
    nSample,              \* sample() calls on D so far
    nFunc,                \* calls of the stored closure so far
    nInner,               \* sample() calls on a distribution returned by func
    nF,                   \* calls of an expectation integrand so far
    nWrapped,             \* user calls of the wrapper's sample() / next()
    nReq,                 \* sum of the sample_size of all sampled expectations
    non_terminal_states,  \* FiniteMarkovProcess.non_terminal_states
    transition_map,       \* FiniteMarkovProcess.transition_map
    mpCall,               \* the method called on the process
    mpOutcome             \* how that call ended

distVars == <<table, kind, func, log, ret, op, arg, nOps, nSample, nFunc,
              nInner, nF, nWrapped, nReq>>
mpVars == <<non_terminal_states, transition_map, mpCall, mpOutcome>>
vars == <<table, kind, func, log, ret, op, arg, nOps, nSample, nFunc,
          nInner, nF, nWrapped, nReq,
          non_terminal_states, transition_map, mpCall, mpOutcome>>

\* ---- bounds -------------------------------------------------------------
MaxOutcome == 1
MaxWeight == 2
MaxSampleSize == 2
MaxCalls == 2
MaxState == 1

Outcomes == 0..MaxOutcome
Weights == 0..MaxWeight
SampleSizes == 0..MaxSampleSize

\* ---- f64 ----------------------------------------------------------------
RECURSIVE Gcd(_, _)
Gcd(a, b) == IF b = 0 THEN a ELSE Gcd(b, a % b)

Abs(a) == IF a < 0 THEN 0 - a ELSE a

F64(a) == [kind |-> "fin", num |-> a, den |-> 1]
NaN == [kind |-> "nan", num |-> 0, den |-> 0]
Inf(sign) == [kind |-> "inf", num |-> sign, den |-> 0]

\* a / (b as f64) for an integer-valued a and a usize b
F64Div(a, b) ==
    IF b = 0
    THEN IF a = 0 THEN NaN ELSE IF a > 0 THEN Inf(1) ELSE Inf(0 - 1)
    ELSE LET g == Gcd(Abs(a), b)
         IN  [kind |-> "fin", num |-> a \div g, den |-> b \div g]

\* ---- finite distributions ----------------------------------------------
\* Distribution::sample is a required method without a body: a draw from D
\* is any outcome to which table() gives a positive weight.
Support(t) == {k \in DOMAIN t : t[k] > 0}

Tables == {t \in UNION {[K -> Weights] : K \in SUBSET Outcomes} :
             Support(t) # {}}

\* closures T -> U handed to map
MapFuncs == {[t \in Outcomes |-> t],
             [t \in Outcomes |-> MaxOutcome - t],
             [t \in Outcomes |-> 0]}

\* closures T -> X, X a distribution, stored by SampledDist
PointMass(u) == [k \in {u} |-> 1]
Uniform == [k \in Outcomes |-> 1]
BindFuncs == {[t \in Outcomes |-> PointMass(t)],
              [t \in Outcomes |-> PointMass(MaxOutcome - t)],
              [t \in Outcomes |-> Uniform]}

\* integrands Fn(&T) -> f64
Integrands == {[t \in Outcomes |-> t],
               [t \in Outcomes |-> 1],
               [t \in Outcomes |-> 1 - 2 * t]}

NoFunc == [t \in Outcomes |-> t]
NoRet == [kind |-> "unit", num |-> 0, den |-> 0]
None == [kind |-> "none", num |-> 0, den |-> 0]
Value(v) == [kind |-> "val", num |-> v, den |-> 1]
Some(v) == [kind |-> "some", num |-> v, den |-> 1]
Panic == [kind |-> "panic", num |-> 0, den |-> 0]

\* ---- events ------------------------------------------------------------
EvSample(v) == [ev |-> "D.sample", arg |-> v, res |-> v]
EvFunc(t, r) == [ev |-> "func", arg |-> t, res |-> r]
EvInner(t, u) == [ev |-> "X.sample", arg |-> t, res |-> u]
EvF(u, y) == [ev |-> "f", arg |-> u, res |-> y]

CountEv(s, e) == Cardinality({i \in 1..Len(s) : s[i].ev = e})

\* ---- pure parts of the operations ---------------------------------------
\* HashMap::get : Option as a sequence of length 0 or 1
Get(t, k) == IF k \in DOMAIN t THEN <<t[k]>> ELSE <<>>
UnwrapOr(o, d) == IF Len(o) = 0 THEN d ELSE o[1]

probability_unwrap(t, outcome) ==
    IF outcome \in DOMAIN t THEN F64(t[outcome]) ELSE Panic

\* FiniteDistribution::probability
probability(t, outcome) == F64(UnwrapOr(Get(t, outcome), 0))

RECURSIVE WeightedSum(_, _, _, _)
WeightedSum(t, f, order, i) ==
    IF i > Len(order) THEN 0
    ELSE t[order[i]] * f[order[i]] + WeightedSum(t, f, order, i + 1)

RECURSIVE IntegrandLog(_, _, _)
IntegrandLog(f, order, i) ==
    IF i > Len(order) THEN <<>>
    ELSE <<EvF(order[i], f[order[i]])>> \o IntegrandLog(f, order, i + 1)

finite_expectation_undivided(t, f, sample_size, order) ==
    [log |-> IntegrandLog(f, order, 1),
     val |-> F64(WeightedSum(t, f, order, 1))]

\* FiniteDistribution::expectation; order is the iteration order of table()
finite_expectation(t, f, sample_size, order) ==
    [log |-> IntegrandLog(f, order, 1),
     val |-> F64Div(WeightedSum(t, f, order, 1), sample_size)]

\* The constructors below return the calls they make; t is the value D
\* would yield if it were sampled.
\* Distribution::sample_iter : builds the DistIter, nothing else
sample_iter(t) == <<>>

map_eager(fn, t) == <<EvSample(t), EvFunc(t, fn[t])>>

\* Distribution::map : builds the DistMap, nothing else
map(fn, t) == <<>>

\* Distribution::apply : builds the SampledDist, nothing else.  Its bound on
\* Func is Fn() -> X, while SampledDist is a Distribution only for
\* F: Fn(T) -> X; fn ranges over the closures for which sample() exists.
apply(fn, t) == <<>>

DistIter_next_ends(t) ==
    [log |-> <<EvSample(t)>>, val |-> None]

\* DistIter::next ; t is the value self.dist.sample() produces
DistIter_next(t) ==
    [log |-> <<EvSample(t)>>, val |-> Some(t)]

\* DistMap::sample ; t is the value self.dist.sample() produces
DistMap_sample(fn, t) ==
    [log |-> <<EvSample(t), EvFunc(t, fn[t])>>, val |-> fn[t]]

SampledDist_sample_unbound(fn, t, u) ==
    [log |-> <<EvSample(t), EvFunc(0, fn[0]), EvInner(fn[0], u)>>, val |-> u]

\* SampledDist::sample ; t is drawn from self.dist, u from the distribution
\* that func returns
SampledDist_sample(fn, t, u) ==
    [log |-> <<EvSample(t), EvFunc(t, fn[t]), EvInner(fn[t], u)>>, val |-> u]

Range_short(sample_size) == 1..(sample_size - 1)

\* the range 0..sample_size, as the indices of the draws it consumes
Range(sample_size) == 1..sample_size

RECURSIVE SumTo(_, _)
SumTo(ys, n) == IF n = 0 THEN 0 ELSE ys[n] + SumTo(ys, n - 1)

RECURSIVE ConcatTo(_, _)
ConcatTo(ls, n) == IF n = 0 THEN <<>> ELSE ConcatTo(ls, n - 1) \o ls[n]

\* DistMap::expectation ; ts are the values self.dist.sample() produces
DistMap_expectation(fn, f, sample_size, ts) ==
    LET m == Cardinality(Range(sample_size))
        run == [i \in 1..m |-> DistMap_sample(fn, ts[i])]
    IN  [log |-> ConcatTo([i \in 1..m |->
                     run[i].log \o <<EvF(run[i].val, f[run[i].val])>>], m),
         val |-> F64Div(SumTo([i \in 1..m |-> f[run[i].val]], m), sample_size)]

\* SampledDist::expectation ; ts, us as in SampledDist::sample
SampledDist_expectation(fn, f, sample_size, ts, us) ==
    LET m == Cardinality(Range(sample_size))
        run == [i \in 1..m |-> SampledDist_sample(fn, ts[i], us[i])]
    IN  [log |-> ConcatTo([i \in 1..m |->
                     run[i].log \o <<EvF(run[i].val, f[run[i].val])>>], m),
         val |-> F64Div(SumTo([i \in 1..m |-> f[run[i].val]], m), sample_size)]

\* ---- the distribution algebra: operations ---------------------------------
NoArg == [o |-> 0, f |-> NoFunc, n |-> 0]

\* the values the randomness source hands to the next sample() calls on D
Draws == [1..(MaxSampleSize + 1) -> Support(table)]
\* ... and to the sample() calls on the distributions fn returns
InnerDraws(fn, ts) ==
    {us \in [1..(MaxSampleSize + 1) -> Outcomes] :
        \A i \in 1..(MaxSampleSize + 1) : us[i] \in Support(fn[ts[i]])}

Orders(S) ==
    {q \in [1..Cardinality(S) -> S] :
        \A i, j \in 1..Cardinality(S) : q[i] = q[j] => i = j}

Record(name, a, run, calls, wrapped, req) ==
    /\ op' = name
    /\ arg' = a
    /\ log' = run.log
    /\ ret' = run.val
    /\ nOps' = nOps + calls
    /\ nSample' = nSample + CountEv(run.log, "D.sample")
    /\ nFunc' = nFunc + CountEv(run.log, "func")
    /\ nInner' = nInner + CountEv(run.log, "X.sample")
    /\ nF' = nF + CountEv(run.log, "f")
    /\ nWrapped' = nWrapped + wrapped
    /\ nReq' = nReq + req

Probability ==
    /\ kind = "Finite"
    /\ nOps < MaxCalls
    /\ \E outcome \in Outcomes :
          Record("probability", [NoArg EXCEPT !.o = outcome],
                 [log |-> <<>>, val |-> probability(table, outcome)], 1, 0, 0)
    /\ UNCHANGED <<table, kind, func>>
    /\ UNCHANGED mpVars

FiniteExpectation ==
    /\ kind = "Finite"
    /\ nOps < MaxCalls
    /\ \E f \in Integrands, sample_size \in SampleSizes,
          order \in Orders(DOMAIN table) :
          Record("finite_expectation", [NoArg EXCEPT !.f = f, !.n = sample_size],
                 finite_expectation(table, f, sample_size, order), 1, 0, 0)
    /\ UNCHANGED <<table, kind, func>>
    /\ UNCHANGED mpVars

SampleIter ==
    /\ kind = "Finite"
    /\ \E ts \in Draws :
          Record("sample_iter", NoArg,
                 [log |-> sample_iter(ts[1]), val |-> NoRet], 0, 0, 0)
    /\ kind' = "DistIter"
    /\ UNCHANGED <<table, func>>
    /\ UNCHANGED mpVars

Map ==
    /\ kind = "Finite"
    /\ \E fn \in MapFuncs, ts \in Draws :
          /\ Record("map", NoArg,
                    [log |-> map(fn, ts[1]), val |-> NoRet], 0, 0, 0)
          /\ func' = fn
    /\ kind' = "DistMap"
    /\ UNCHANGED table
    /\ UNCHANGED mpVars

Apply ==
    /\ kind = "Finite"
    /\ \E fn \in BindFuncs, ts \in Draws :
          /\ Record("apply", NoArg,
                    [log |-> apply(fn, ts[1]), val |-> NoRet], 0, 0, 0)
          /\ func' = fn
    /\ kind' = "SampledDist"
    /\ UNCHANGED table
    /\ UNCHANGED mpVars

DistIterNext ==
    /\ kind = "DistIter"
    /\ nOps < MaxCalls
    /\ \E ts \in Draws :
          Record("next", NoArg, DistIter_next(ts[1]), 1, 1, 0)
    /\ UNCHANGED <<table, kind, func>>
    /\ UNCHANGED mpVars

DistMapSample ==
    /\ kind = "DistMap"
    /\ nOps < MaxCalls
    /\ \E ts \in Draws :
          LET run == DistMap_sample(func, ts[1])
          IN  Record("sample", NoArg,
                     [log |-> run.log, val |-> Value(run.val)], 1, 1, 0)
    /\ UNCHANGED <<table, kind, func>>
    /\ UNCHANGED mpVars

DistMapExpectation ==
    /\ kind = "DistMap"
    /\ nOps < MaxCalls
    /\ \E f \in Integrands, sample_size \in SampleSizes, ts \in Draws :
          Record("expectation", [NoArg EXCEPT !.f = f, !.n = sample_size],
                 DistMap_expectation(func, f, sample_size, ts),
                 1, 0, sample_size)
    /\ UNCHANGED <<table, kind, func>>
    /\ UNCHANGED mpVars

SampledDistSample ==
    /\ kind = "SampledDist"
    /\ nOps < MaxCalls
    /\ \E ts \in Draws : \E us \in InnerDraws(func, ts) :
          LET run == SampledDist_sample(func, ts[1], us[1])
          IN  Record("sample", NoArg,
                     [log |-> run.log, val |-> Value(run.val)], 1, 1, 0)
    /\ UNCHANGED <<table, kind, func>>
    /\ UNCHANGED mpVars

SampledDistExpectation ==
    /\ kind = "SampledDist"
    /\ nOps < MaxCalls
    /\ \E f \in Integrands, sample_size \in SampleSizes, ts \in Draws :
          \E us \in InnerDraws(func, ts) :
             Record("expectation", [NoArg EXCEPT !.f = f, !.n = sample_size],
                    SampledDist_expectation(func, f, sample_size, ts, us),
                    1, 0, sample_size)
    /\ UNCHANGED <<table, kind, func>>
    /\ UNCHANGED mpVars

\* ---- the finite Markov process ------------------------------------------
States == 0..MaxState

\* transition distributions; weights are probabilities in halves
TransTables ==
    {[k \in {s} |-> 2] : s \in States}
    \cup {[k \in K |-> 1] : K \in {A \in SUBSET States : Cardinality(A) = 2}}

NoProcess == <<>>
NoCall == [method |-> "none", start |-> <<>>, state |-> 0]
NoOutcome == [kind |-> "none", msg |-> "", val |-> <<>>]

\* todo!()
todo == [kind |-> "panic", msg |-> "not yet implemented", val |-> <<>>]

NonTerminals == {non_terminal_states[i] : i \in 1..Len(non_terminal_states)}

Call(c) ==
    /\ mpCall = NoCall
    /\ mpCall' = c
    /\ UNCHANGED <<non_terminal_states, transition_map>>
    /\ UNCHANGED distVars

get_transition_matrix ==
    /\ Call([NoCall EXCEPT !.method = "get_transition_matrix"])
    /\ mpOutcome' = todo

get_stationary_distribution ==
    /\ Call([NoCall EXCEPT !.method = "get_stationary_distribution"])
    /\ mpOutcome' = todo

transition ==
    /\ \E state \in NonTerminals :
          Call([NoCall EXCEPT !.method = "transition", !.state = state])
    /\ mpOutcome' = todo

simulate_iter ==
    /\ \E start_state_dist \in TransTables :
          Call([NoCall EXCEPT !.method = "simulate_iter",
                              !.start = start_state_dist])
    /\ mpOutcome' = todo

traces_iter ==
    /\ \E start_state_dist \in TransTables :
          Call([NoCall EXCEPT !.method = "traces_iter",
                              !.start = start_state_dist])
    /\ mpOutcome' = todo

\* ---- specifications -----------------------------------------------------
InitDist ==
    /\ table \in Tables
    /\ kind = "Finite"
    /\ func = NoFunc
    /\ log = <<>>
    /\ ret = NoRet
    /\ op = "new"
    /\ arg = NoArg
    /\ nOps = 0
    /\ nSample = 0
    /\ nFunc = 0
    /\ nInner = 0
    /\ nF = 0
    /\ nWrapped = 0
    /\ nReq = 0

InitProcess ==
    /\ non_terminal_states \in
          UNION {Orders(N) : N \in (SUBSET States) \ {{}}}
    /\ transition_map \in
          [{non_terminal_states[i] : i \in 1..Len(non_terminal_states)}
              -> TransTables]
    /\ mpCall = NoCall
    /\ mpOutcome = NoOutcome

Init ==
    /\ InitDist
    /\ non_terminal_states = NoProcess
    /\ transition_map = NoProcess
    /\ mpCall = NoCall
    /\ mpOutcome = NoOutcome

Next ==
    \/ Probability
    \/ FiniteExpectation
    \/ SampleIter
    \/ Map
    \/ Apply
    \/ DistIterNext
    \/ DistMapSample
    \/ DistMapExpectation
    \/ SampledDistSample
    \/ SampledDistExpectation

Spec == Init /\ [][Next]_vars

InitMP ==
    /\ InitProcess
    /\ table = Uniform
    /\ kind = "Finite"
    /\ func = NoFunc
    /\ log = <<>>
    /\ ret = NoRet
    /\ op = "new"
    /\ arg = NoArg
    /\ nOps = 0
    /\ nSample = 0
    /\ nFunc = 0
    /\ nInner = 0
    /\ nF = 0
    /\ nWrapped = 0
    /\ nReq = 0

NextMP ==
    \/ get_transition_matrix
    \/ get_stationary_distribution
    \/ transition
    \/ simulate_iter
    \/ traces_iter

SpecMP == InitMP /\ [][NextMP]_vars

\* ---- properties: the finite Markov process -------------------------------
\* probability, in halves, of the step from state i to state j
StepProb(i, j) ==
    IF j \in DOMAIN transition_map[i] THEN transition_map[i][j] ELSE 0

Tagged(s) ==
    [tag |-> IF s \in NonTerminals THEN "NonTerminal" ELSE "Terminal",
     state |-> s]

IsSimulation(seq, start) ==
    /\ Len(seq) >= 1
    /\ seq[1].state \in Support(start)
    /\ \A i \in 1..Len(seq) : seq[i] = Tagged(seq[i].state)
    /\ \A i \in 1..(Len(seq) - 1) :
          /\ seq[i].tag = "NonTerminal"
          /\ seq[i + 1].state \in Support(transition_map[seq[i].state])
    /\ seq[Len(seq)].tag = "Terminal"

\* the sole non-terminal state moves to a terminal state with probability 1.0
IsAbsorbingPair ==
    /\ Len(non_terminal_states) = 1
    /\ \E s \in States \ NonTerminals :
          transition_map[non_terminal_states[1]] = [k \in {s} |-> 2]

\* C1: simulate_iter(start_dist) yields a sequence that starts with a draw
\* from start_dist, continues after every non-terminal state with a draw from
\* that state's transition distribution and ends at the first terminal state;
\* for the chain whose sole non-terminal state moves to a terminal state with
\* probability 1.0 it has exactly two elements.
C1_SimulateIterYieldsTrace ==
    mpCall.method = "simulate_iter" =>
        /\ mpOutcome.kind = "iter"
        /\ IsSimulation(mpOutcome.val, mpCall.start)
        /\ (IsAbsorbingPair /\ Support(mpCall.start) = NonTerminals)
              => Len(mpOutcome.val) = 2

\* C2: get_transition_matrix returns the square matrix over the non-terminal
\* states, rows and columns in the order of non_terminal_states, whose entry
\* (i, j) is the probability of the step from the i-th to the j-th state.
C2_TransitionMatrixEntries ==
    mpCall.method = "get_transition_matrix" =>
        /\ mpOutcome.kind = "matrix"
        /\ mpOutcome.val =
              [i \in 1..Len(non_terminal_states) |->
                 [j \in 1..Len(non_terminal_states) |->
                    StepProb(non_terminal_states[i], non_terminal_states[j])]]

Closed(C) == \A s \in C : Support(transition_map[s]) \subseteq C

\* the closed communicating classes inside the non-terminal states
ClosedClasses ==
    {C \in (SUBSET NonTerminals) \ {{}} :
        /\ Closed(C)
        /\ \A B \in (SUBSET C) \ {{}, C} : ~Closed(B)}

HasUniqueStationary == Cardinality(ClosedClasses) = 1

RECURSIVE SumOver(_, _)
SumOver(S, g) ==
    IF S = {} THEN 0
    ELSE LET x == CHOOSE y \in S : TRUE
         IN  g[x] + SumOver(S \ {x}, g)

\* pi = pi P and sum(pi) = 1, for pi[s] = d.num[s] / d.den
IsStationary(d) ==
    /\ DOMAIN d.num = NonTerminals
    /\ d.den > 0
    /\ SumOver(NonTerminals, d.num) = d.den
    /\ \A j \in NonTerminals :
          SumOver(NonTerminals,
                  [i \in NonTerminals |-> d.num[i] * StepProb(i, j)])
             = 2 * d.num[j]

IsSwapChain ==
    /\ Len(non_terminal_states) = 2
    /\ \A i \in 1..2 :
          transition_map[non_terminal_states[i]] =
             [k \in {non_terminal_states[3 - i]} |-> 2]

\* C3: when a unique stationary distribution over the non-terminal states
\* exists, get_stationary_distribution returns pi with pi = pi P and
\* sum(pi) = 1; for the two-state swap chain it is 0.5 for each state.
C3_StationaryDistributionSolved ==
    (mpCall.method = "get_stationary_distribution" /\ HasUniqueStationary) =>
        /\ mpOutcome.kind = "dist"
        /\ IsStationary(mpOutcome.val)
        /\ IsSwapChain =>
              \A s \in NonTerminals :
                 2 * mpOutcome.val.num[s] = mpOutcome.val.den

\* C4: when no unique stationary distribution over the non-terminal states
\* exists, get_stationary_distribution reports the failure "no unique
\* stationary distribution" and returns no distribution.
C4_NoUniqueStationaryReported ==
    (mpCall.method = "get_stationary_distribution" /\ ~HasUniqueStationary) =>
        /\ mpOutcome.kind = "failure"
        /\ mpOutcome.msg = "no unique stationary distribution"

\* ---- properties: the distribution algebra -----------------------------------
\* C5: probability(outcome) is 0.0 for an outcome that is no key of table(),
\* the stored weight for one that is, and never an error.
C5_ProbabilityOfKeyOrZero ==
    op = "probability" =>
        /\ ret.kind = "fin"
        /\ ret.den = 1
        /\ arg.o \notin DOMAIN table => ret.num = 0
        /\ arg.o \in DOMAIN table => ret.num = table[arg.o]

C5_Witness ==
    /\ op = "probability"
    /\ arg.o \notin DOMAIN table
    /\ ret = F64(0)
    /\ nOps = 2

ExactSum(t, f) == SumOver(DOMAIN t, [k \in DOMAIN t |-> t[k] * f[k]])

\* C6: FiniteDistribution::expectation(f, sample_size) draws no sample and
\* returns the weighted sum of f over the table divided by sample_size: the
\* sum itself for sample_size = 1, the sum scaled by 1/n for any other n.
C6_ExactExpectationDividedBySampleSize ==
    op = "finite_expectation" =>
        /\ nSample = 0 /\ nInner = 0
        /\ \A i \in 1..Len(log) : log[i].ev = "f"
        /\ arg.n = 1 => ret = F64(ExactSum(table, arg.f))
        /\ arg.n >= 1 =>
              /\ ret.kind = "fin"
              /\ ret.den > 0
              /\ ret.num * arg.n = ExactSum(table, arg.f) * ret.den
        /\ arg.n = 0 => ret.kind \in {"inf", "nan"}

C6_Witness ==
    /\ op = "finite_expectation"
    /\ arg.n = 2
    /\ ExactSum(table, arg.f) = 3
    /\ ret = [kind |-> "fin", num |-> 3, den |-> 2]

C8_MapIsLazy ==
    /\ op = "map" => /\ Len(log) = 0
                     /\ nFunc = 0
                     /\ nSample = 0
    /\ (kind = "DistMap" /\ op = "sample") =>
          /\ Len(log) = 2
          /\ log[1].ev = "D.sample"
          /\ log[2].ev = "func"
          /\ log[2].arg = log[1].res
          /\ ret = Value(log[2].res)
    /\ kind = "DistMap" => /\ nFunc = nWrapped + nReq
                           /\ nFunc = nSample

C8_Witness ==
    /\ kind = "DistMap"
    /\ op = "sample"
    /\ nWrapped = 2
    /\ nFunc = 2

\* C9: the iterator of sample_iter never ends: every next() returns Some of
\* the value of the one sample() call it makes on the owned distribution,
\* and building the iterator draws no sample.
C9_SampleIterNeverEnds ==
    /\ op = "sample_iter" => /\ Len(log) = 0
                             /\ nSample = 0
    /\ op = "next" =>
          /\ ret.kind = "some"
          /\ Len(log) = 1
          /\ log[1].ev = "D.sample"
          /\ log[1].res \in Support(table)
          /\ ret.num = log[1].res
    /\ kind = "DistIter" => nSample = nWrapped
    /\ (kind = "DistIter" /\ nOps < MaxCalls) => ENABLED DistIterNext

C9_Witness ==
    /\ op = "next"
    /\ nWrapped = 2
    /\ ret.kind = "some"

\* the event that produces the value a wrapper's sample() returns
Producer == IF kind = "DistMap" THEN "func" ELSE "X.sample"

RECURSIVE SumOfF(_, _)
SumOfF(s, i) ==
    IF i > Len(s) THEN 0
    ELSE (IF s[i].ev = "f" THEN s[i].res ELSE 0) + SumOfF(s, i + 1)

\* C10: the sampled expectation(f, sample_size) of DistMap and SampledDist
\* draws exactly sample_size samples, applies f exactly once to each and
\* returns the sum of the f values divided by sample_size (sample_size >= 1);
\* nothing is kept between calls, so the draws of all calls add up.
C10_SampledExpectationAverages ==
    /\ (kind \in {"DistMap", "SampledDist"} /\ op = "expectation") =>
          /\ CountEv(log, "D.sample") = arg.n
          /\ CountEv(log, Producer) = arg.n
          /\ CountEv(log, "f") = arg.n
          /\ \A i \in 1..Len(log) :
                /\ log[i].ev = "f" =>
                      /\ i > 1
                      /\ log[i - 1].ev = Producer
                      /\ log[i].arg = log[i - 1].res
                      /\ log[i].res = arg.f[log[i].arg]
                /\ log[i].ev = Producer =>
                      /\ i < Len(log)
                      /\ log[i + 1].ev = "f"
          /\ arg.n >= 1 =>
                /\ ret.kind = "fin"
                /\ ret.den > 0
                /\ ret.num * arg.n = SumOfF(log, 1) * ret.den
    /\ kind \in {"DistMap", "SampledDist"} => nSample = nWrapped + nReq

C10_Witness ==
    /\ kind = "SampledDist"
    /\ op = "expectation"
    /\ nOps = 2
    /\ arg.n = 2
    /\ nSample = 4
    /\ ret = [kind |-> "fin", num |-> 1, den |-> 2]

====
